---- MODULE Spec2Model ----
(***************************************************************************)
(* NextStep study tracker: the terminal menu (NextStep_CLI.py) and the     *)
(* web dashboard (NextStep_Streamlit.py) over the Subject Store and the    *)
(* Session Log.                                                            *)
(*                                                                         *)
(* Time is counted in ticks, TicksPerDay ticks to a calendar day; a        *)
(* datetime is a tick, a date is a day number (tick \div TicksPerDay).     *)
(* A priority score is the exact fraction <<numerator, denominator>>.      *)
(***************************************************************************)
EXTENDS Integers, Sequences, FiniteSets, TLC

VARIABLES
    frontend,            \* "cli" or "web": which program this run is
    running,             \* FALSE once an uncaught exception ended the CLI process
    now,                 \* datetime.datetime.now(), in ticks
    subjects,            \* the Subject Store, in dict iteration order
    session_log,         \* the Session Log
    instant_suggestion,  \* st.session_state.instant_suggestion, or Absent
    instant_mins,        \* st.session_state.instant_mins
    instant_energy,      \* st.session_state.instant_energy
    op,                  \* the handler that ran last
    outcome,             \* how it ended
    subject_priorities,  \* the ranking it computed, <<>> if none
    offered,             \* the subjects it offered for confirmation, in order
    responses,           \* the answer it read to each offer
    chosen_subject,      \* the subject it settled on, or Absent
    dates_set,           \* the argument of the last calculate_streak call
    streak               \* what that call returned

vars == <<frontend, running, now, subjects, session_log, instant_suggestion,
          instant_mins, instant_energy, op, outcome, subject_priorities,
          offered, responses, chosen_subject, dates_set, streak>>

observed == <<op, outcome, subject_priorities, offered, responses, chosen_subject, dates_set,
              streak>>

web_state == <<instant_suggestion, instant_mins, instant_energy>>

-----------------------------------------------------------------------------
(* Bounds of the model                                                     *)

MaxSubjects == 2      \* subjects in the store loaded at start
MaxLog == 2           \* records the Session Log may hold
MaxRun == 101         \* longest run of consecutive study days given to calculate_streak
MaxRanked == 2        \* subjects in a store given to the Priority Engine on its own

(* Program constants                                                       *)

None == -999          \* Python's None in an integer field; no modelled input parses to it
LookBack == 100       \* range(100) in the CLI's calculate_streak
TicksPerDay == 2
MinConf == 1
MaxConf == 10
DefaultConf == 5
DefaultExamDays == 30
RecentDays == 7
DecayDays == 7
MaxDecay == 3

Absent == "<absent>"  \* a missing st.session_state key, or chosen_subject = None

default_names == <<"Science", "Irish", "Maths", "English">>

-----------------------------------------------------------------------------
(* Text input: the strings the model types at a prompt, and what int(),    *)
(* strip(), lower() and title() make of them.                              *)

IntValue ==
    ("-5" :> -5) @@ ("0" :> 0) @@ ("1" :> 1) @@ ("3" :> 3) @@ ("7" :> 7) @@ ("8" :> 8)
    @@ ("11" :> 11) @@ ("30" :> 30) @@ (" 8" :> 8)

IsInt(s) == s \in DOMAIN IntValue

int(s) == IntValue[s]

strip(s) ==
    CASE s = " " -> ""
      [] s = " 8" -> "8"
      [] s = " yes" -> "yes"
      [] OTHER -> s

lower(s) ==
    CASE s = "YES" -> "yes"
      [] s = "No" -> "no"
      [] OTHER -> s

title(s) ==
    CASE s = "science" -> "Science"
      [] s = "irish" -> "Irish"
      [] s = "maths" -> "Maths"
      [] s = "english" -> "English"
      [] s = "history" -> "History"
      [] OTHER -> s

-----------------------------------------------------------------------------
(* The Subject Store                                                       *)

Keys(store) == {store[i].name : i \in DOMAIN store}

SetConfidence(store, name, conf) ==
    [i \in DOMAIN store |->
        IF store[i].name = name THEN [store[i] EXCEPT !.confidence = conf] ELSE store[i]]

Delete(store, name) == SelectSeq(store, LAMBDA e : e.name # name)

date(t) == t \div TicksPerDay

today == date(now)

-----------------------------------------------------------------------------
(* Statistics Engine: the streak                                           *)

\* the loop without its break: every studied day of the window counts
calculate_streak_no_break(dates) ==
    Cardinality({i \in 0..(LookBack - 1) : (today - i) \in dates})

Least(S) == CHOOSE i \in S : \A j \in S : i <= j

\* for i in range(100): the loop counts one day per pass and breaks at the first
\* offset whose day is not in the set, so it returns that offset, or 100
calculate_streak(dates) ==
    IF dates = {} THEN 0
    ELSE LET breaks == {i \in 0..(LookBack - 1) : (today - i) \notin dates}
         IN  IF breaks = {} THEN LookBack ELSE Least(breaks)

\* while (today - streak) in dates_set: the loop stops at the first offset whose
\* day is not in the set; a finite set misses one of any Cardinality + 1 days
calculate_streak_web(dates) ==
    IF dates = {} THEN 0
    ELSE Least({i \in 0..Cardinality(dates) : (today - i) \notin dates})

dates_studied(log) == {date(log[i].timestamp) : i \in DOMAIN log}

-----------------------------------------------------------------------------
(* Priority Engine                                                         *)

get_days_since_last_session(log, subject) ==
    LET relevant_sessions == {log[i].timestamp : i \in {j \in DOMAIN log : log[j].subject = subject}}
    IN  IF relevant_sessions = {} THEN None
        ELSE LET last_session == CHOOSE t \in relevant_sessions : \A u \in relevant_sessions : u <= t
             IN  (now - last_session) \div TicksPerDay

recent_session_count(log, subject, days) ==
    LET cutoff == now - days * TicksPerDay
    IN  Cardinality({i \in DOMAIN log : log[i].subject = subject /\ log[i].timestamp >= cutoff})

configured(store) ==
    \A i \in DOMAIN store :
        /\ store[i].exam_date # None
        /\ store[i].confidence # None
        /\ store[i].confidence # 0

\* 1 / max(days_left, 0.1), as a fraction
urgency(days_left) == IF days_left >= 1 THEN <<1, days_left>> ELSE <<10, 1>>

decay(days_since) ==
    LET weeks == days_since \div DecayDays
    IN  IF weeks < MaxDecay THEN weeks ELSE MaxDecay

adjusted_conf(stored_conf, days_since) ==
    IF days_since # None
    THEN LET lowered == stored_conf - decay(days_since)
         IN  IF lowered > 1 THEN lowered ELSE 1
    ELSE stored_conf

adjusted_conf_web(stored_conf, days_since) ==
    LET lowered == stored_conf - (IF days_since # None THEN decay(days_since) ELSE 0)
    IN  IF lowered > 1 THEN lowered ELSE 1

difficulty(conf) == 11 - conf

\* the sum with the urgency unweighted
priority_score_unweighted(urg, diff, recent) ==
    <<2 * urg[1] + 2 * urg[2] * diff - urg[2] * recent, 2 * urg[2]>>

\* (urgency * 1.5) + difficulty - recent * 0.5, over the denominator 2 * urgency[2]
priority_score(urg, diff, recent) ==
    <<3 * urg[1] + 2 * urg[2] * diff - urg[2] * recent, 2 * urg[2]>>

score_of(log, entry) ==
    priority_score(urgency(entry.exam_date - today),
                   difficulty(adjusted_conf(entry.confidence,
                                            get_days_since_last_session(log, entry.name))),
                   recent_session_count(log, entry.name, RecentDays))

score_of_web(log, entry) ==
    priority_score(urgency(entry.exam_date - today),
                   difficulty(adjusted_conf_web(entry.confidence,
                                                get_days_since_last_session(log, entry.name))),
                   recent_session_count(log, entry.name, RecentDays))

unsorted_priorities(store, log) == [i \in DOMAIN store |-> <<store[i].name, score_of(log, store[i])>>]

unsorted_priorities_web(store, log) ==
    [i \in DOMAIN store |-> <<store[i].name, score_of_web(log, store[i])>>]

\* a >= b for fractions with positive denominators
score_ge(a, b) == a[1] * b[2] >= b[1] * a[2]

\* the insertion putting an element in front of the earlier elements of its score
insert_desc_before_equal(sorted, x) ==
    LET k == Cardinality({i \in DOMAIN sorted : ~score_ge(x[2], sorted[i][2])})
    IN  SubSeq(sorted, 1, k) \o <<x>> \o SubSeq(sorted, k + 1, Len(sorted))

\* list.sort(key=score, reverse=True): stable, so an element goes behind every
\* earlier element whose score is not smaller
insert_desc(sorted, x) ==
    LET k == Cardinality({i \in DOMAIN sorted : score_ge(sorted[i][2], x[2])})
    IN  SubSeq(sorted, 1, k) \o <<x>> \o SubSeq(sorted, k + 1, Len(sorted))

\* the sort without reverse=True
RECURSIVE sort_asc(_)
sort_asc(pairs) ==
    IF pairs = <<>> THEN <<>>
    ELSE LET rest == sort_asc(SubSeq(pairs, 1, Len(pairs) - 1))
             x == pairs[Len(pairs)]
             k == Cardinality({i \in DOMAIN rest : score_ge(x[2], rest[i][2])})
         IN  SubSeq(rest, 1, k) \o <<x>> \o SubSeq(rest, k + 1, Len(rest))

RECURSIVE sort_desc(_)
sort_desc(pairs) ==
    IF pairs = <<>> THEN <<>>
    ELSE insert_desc(sort_desc(SubSeq(pairs, 1, Len(pairs) - 1)), pairs[Len(pairs)])

rank(store, log) == sort_desc(unsorted_priorities(store, log))

rank_web(store, log) == sort_desc(unsorted_priorities_web(store, log))

\* the confirmation loop: the index of the first "yes", 0 if every answer is a no
first_yes(ranking, answers) ==
    LET yes == {i \in DOMAIN ranking : lower(strip(answers[i])) = "yes"}
    IN  IF yes = {} THEN 0 ELSE CHOOSE i \in yes : \A j \in yes : i <= j

offered_to(ranking, answers) ==
    LET k == first_yes(ranking, answers)
    IN  [i \in 1..(IF k = 0 THEN Len(ranking) ELSE k) |-> ranking[i][1]]

\* the fallback taking the subject offered last
choose_subject_last(ranking, answers) ==
    LET k == first_yes(ranking, answers)
    IN  IF k # 0 THEN ranking[k][1] ELSE ranking[Len(ranking)][1]

choose_subject(ranking, answers) ==
    LET k == first_yes(ranking, answers)
    IN  IF k # 0 THEN ranking[k][1] ELSE ranking[1][1]

task_type_for(energy) ==
    IF energy = "low" THEN "Flashcards or Light Revision"
    ELSE IF energy = "medium" THEN "Practice Questions or Diagrams"
    ELSE "Essays or Full Past Paper Sections"

session_record(subject, task_type, mins, effectiveness) ==
    [subject |-> subject, timestamp |-> now, task_type |-> task_type,
     duration_mins |-> mins, effectiveness |-> effectiveness]

-----------------------------------------------------------------------------
(* What the model types and picks                                          *)

SubjectInputs == {"science", "Irish", "maths", "history"}
MinsInputs == {"0", "30"}
InstantMinsInputs == {"30"}
EnergyInputs == {"high"}
AnswerInputs == {" yes", "No"}
RatingInputs == {"0", "7", "abc"}
ConfInputs == {" ", "0", " 8", "11", "abc"}
ManualRatingInputs == {"7", "11"}
ManualConfInputs == {" ", " 8", "11"}
SetupConfInputs == {"3", "8"}
ExamDays == {3}
TaskInputs == {"Essay"}
ConfChoices == {9}
EffectivenessChoices == {7}
WebMinsChoices == {30}
NewSubjectInputs == {"", "Science", "Irish"}

\* the instants the clock shows, in ticks: the start, and the second half of the next day
Instants == {0, 3}

in_range(n) == MinConf <= n /\ n <= MaxConf

ReportAnswered(handler, result, ranking, shown, replies, chosen) ==
    /\ op' = handler
    /\ outcome' = result
    /\ subject_priorities' = ranking
    /\ offered' = shown
    /\ responses' = replies
    /\ chosen_subject' = chosen
    /\ dates_set' = {}
    /\ streak' = None

Report(handler, result, ranking, shown, chosen) ==
    /\ op' = handler
    /\ outcome' = result
    /\ subject_priorities' = ranking
    /\ offered' = shown
    /\ responses' = <<>>
    /\ chosen_subject' = chosen
    /\ dates_set' = {}
    /\ streak' = None

-----------------------------------------------------------------------------
(* The terminal menu                                                       *)

\* confs and dates are the answers that end each subject's two prompt loops
setup_subjects(confs, dates) ==
    /\ frontend = "cli" /\ running
    /\ \A i \in DOMAIN subjects : IsInt(confs[i]) /\ in_range(int(confs[i]))
    /\ subjects' = [i \in DOMAIN subjects |->
                        [subjects[i] EXCEPT !.confidence = int(confs[i]), !.exam_date = dates[i]]]
    \* save_subjects() is called without its argument
    /\ running' = FALSE
    /\ Report("setup_subjects", "TypeError", <<>>, <<>>, Absent)
    /\ UNCHANGED <<frontend, now, session_log, web_state>>

\* the prompt loop taking the first entry, whatever it is
manual_log_session_any_subject(typed, mins_in, task_type, eff_in, new_conf_in) ==
    LET subject == title(strip(typed[1]))
    IN  /\ frontend = "cli" /\ running
        /\ IsInt(mins_in)
        /\ IsInt(eff_in) /\ in_range(int(eff_in))
        /\ Len(session_log) < MaxLog
        /\ session_log' = Append(session_log,
                                 session_record(subject, task_type, int(mins_in), int(eff_in)))
        /\ Report("manual_log_session", "logged", <<>>, <<>>, subject)
        /\ UNCHANGED <<frontend, running, now, subjects, web_state>>

\* the record put in front of the log
manual_log_session_prepend(typed, mins_in, task_type, eff_in, new_conf_in) ==
    LET subject == title(strip(typed[Len(typed)]))
    IN  /\ frontend = "cli" /\ running
        /\ subject \in Keys(subjects)
        /\ IsInt(mins_in)
        /\ IsInt(eff_in) /\ in_range(int(eff_in))
        /\ Len(session_log) < MaxLog
        /\ session_log' = <<session_record(subject, task_type, int(mins_in), int(eff_in))>>
                              \o session_log
        /\ Report("manual_log_session", "logged", <<>>, <<>>, subject)
        /\ UNCHANGED <<frontend, running, now, subjects, web_state>>

\* typed holds the subject entries up to the one that ends the prompt loop
manual_log_session(typed, mins_in, task_type, eff_in, new_conf_in) ==
    LET subject == title(strip(typed[Len(typed)]))
        new_conf == strip(new_conf_in)
        accepted == new_conf # "" /\ IsInt(new_conf) /\ in_range(int(new_conf))
    IN  /\ frontend = "cli" /\ running
        /\ Len(typed) >= 1
        /\ subject \in Keys(subjects)
        /\ \A i \in 1..(Len(typed) - 1) : title(strip(typed[i])) \notin Keys(subjects)
        /\ IsInt(mins_in)
        /\ IsInt(eff_in) /\ in_range(int(eff_in))
        /\ Len(session_log) < MaxLog
        /\ subjects' = IF accepted THEN SetConfidence(subjects, subject, int(new_conf))
                       ELSE subjects
        /\ session_log' = Append(session_log,
                                 session_record(subject, task_type, int(mins_in), int(eff_in)))
        /\ Report("manual_log_session", "logged", <<>>, <<>>, subject)
        /\ UNCHANGED <<frontend, running, now, web_state>>

instant_mode(mins_in, energy, answers, completed, rating, new_conf) ==
    /\ frontend = "cli" /\ running
    /\ UNCHANGED <<frontend, now, web_state>>
    /\ IF ~configured(subjects)
       THEN /\ Report("instant_mode", "incomplete", <<>>, <<>>, Absent)
            /\ UNCHANGED <<running, subjects, session_log>>
       ELSE LET ranking == rank(subjects, session_log)
            IN  /\ IsInt(mins_in)
                /\ IF ranking = <<>>
                   THEN \* subject_priorities[0] of an empty list
                        /\ Report("instant_mode", "IndexError", ranking, <<>>, Absent)
                        /\ running' = FALSE
                        /\ UNCHANGED <<subjects, session_log>>
                   ELSE LET chosen == choose_subject(ranking, answers)
                            shown == offered_to(ranking, answers)
                            replies == SubSeq(answers, 1, Len(shown))
                            wants == strip(new_conf) # ""
                            updated == IF wants /\ IsInt(new_conf)
                                       THEN SetConfidence(subjects, chosen, int(new_conf))
                                       ELSE subjects
                        IN  IF lower(strip(completed)) # "yes"
                            THEN /\ ReportAnswered("instant_mode", "not_logged", ranking, shown, replies, chosen)
                                 /\ UNCHANGED <<running, subjects, session_log>>
                            ELSE IF wants /\ ~IsInt(new_conf)
                            THEN \* int(new_conf) raises before anything is written
                                 /\ ReportAnswered("instant_mode", "ValueError", ranking, shown, replies, chosen)
                                 /\ running' = FALSE
                                 /\ UNCHANGED <<subjects, session_log>>
                            ELSE IF ~IsInt(rating)
                            THEN \* int(rating) raises after the confidence was written
                                 /\ ReportAnswered("instant_mode", "ValueError", ranking, shown, replies, chosen)
                                 /\ running' = FALSE
                                 /\ subjects' = updated
                                 /\ UNCHANGED session_log
                            ELSE /\ Len(session_log) < MaxLog
                                 /\ subjects' = updated
                                 /\ session_log' = Append(session_log,
                                        session_record(chosen, task_type_for(energy),
                                                       int(mins_in), int(rating)))
                                 /\ ReportAnswered("instant_mode", "logged", ranking, shown, replies, chosen)
                                 /\ UNCHANGED running

view_summary ==
    /\ frontend = "cli" /\ running
    /\ op' = "view_summary"
    /\ outcome' = "ok"
    /\ subject_priorities' = <<>>
    /\ offered' = <<>>
    /\ responses' = <<>>
    /\ chosen_subject' = Absent
    /\ IF session_log = <<>>
       THEN dates_set' = {} /\ streak' = None
       ELSE /\ dates_set' = dates_studied(session_log)
            /\ streak' = calculate_streak(dates_studied(session_log))
    /\ UNCHANGED <<frontend, running, now, subjects, session_log, web_state>>

-----------------------------------------------------------------------------
(* The web dashboard: one action per script run                            *)

\* The Settings loop with every widget left alone: a slider without a value
\* starts at its minimum, a date input without a date starts at today
settings_widgets(store) ==
    [i \in DOMAIN store |->
        [store[i] EXCEPT
            !.confidence = IF store[i].confidence = None THEN MinConf ELSE store[i].confidence,
            !.exam_date = IF store[i].exam_date = None THEN today ELSE store[i].exam_date]]

\* the suggestion block of the Instant Mode page reads subjects[chosen_subject]
stale_suggestion ==
    instant_suggestion # Absent /\ instant_suggestion \notin Keys(subjects)

web_suggest(mins, energy) ==
    /\ frontend = "web"
    /\ UNCHANGED <<frontend, running, now, subjects, session_log>>
    /\ IF ~configured(subjects)
       THEN /\ Report("web_suggest", IF stale_suggestion THEN "KeyError" ELSE "incomplete",
                      <<>>, <<>>, Absent)
            /\ UNCHANGED web_state
       ELSE LET ranking == rank_web(subjects, session_log)
            IN  IF ranking = <<>>
                THEN \* subject_priorities[0] of an empty list
                     /\ Report("web_suggest", "IndexError", ranking, <<>>, Absent)
                     /\ UNCHANGED web_state
                ELSE /\ instant_suggestion' = ranking[1][1]
                     /\ instant_mins' = mins
                     /\ instant_energy' = energy
                     /\ Report("web_suggest", "suggested", ranking, <<ranking[1][1]>>,
                               ranking[1][1])

web_instant_view ==
    /\ frontend = "web"
    /\ Report("web_instant_view",
              IF stale_suggestion THEN "KeyError"
              ELSE IF ~configured(subjects) THEN "incomplete" ELSE "ok",
              <<>>, <<>>, instant_suggestion)
    /\ UNCHANGED <<frontend, running, now, subjects, session_log, web_state>>

web_instant_log(effectiveness, new_conf) ==
    /\ frontend = "web"
    /\ instant_suggestion # Absent
    /\ UNCHANGED <<frontend, running, now, instant_mins, instant_energy>>
    /\ IF stale_suggestion
       THEN \* the confidence slider's default raises before the append
            /\ Report("web_instant_log", "KeyError", <<>>, <<>>, instant_suggestion)
            /\ UNCHANGED <<subjects, session_log, instant_suggestion>>
       ELSE /\ Len(session_log) < MaxLog
            /\ session_log' = Append(session_log,
                    session_record(instant_suggestion, task_type_for(instant_energy),
                                   instant_mins, effectiveness))
            /\ subjects' = SetConfidence(subjects, instant_suggestion, new_conf)
            /\ instant_suggestion' = Absent
            /\ Report("web_instant_log", "logged", <<>>, <<>>, instant_suggestion)

web_log_session(subject, duration, task_type, effectiveness, update_confidence, new_confidence) ==
    /\ frontend = "web"
    /\ subjects # <<>>
    /\ subject \in Keys(subjects)
    /\ Len(session_log) < MaxLog
    /\ session_log' = Append(session_log,
                             session_record(subject, task_type, duration, effectiveness))
    /\ subjects' = IF update_confidence /\ new_confidence # None
                   THEN SetConfidence(subjects, subject, new_confidence)
                   ELSE subjects
    /\ Report("web_log_session", "logged", <<>>, <<>>, subject)
    /\ UNCHANGED <<frontend, running, now, web_state>>

web_settings(name, new_conf, new_date) ==
    /\ frontend = "web"
    /\ name \in Keys(subjects)
    /\ subjects' = [i \in DOMAIN subjects |->
                        IF subjects[i].name = name
                        THEN [subjects[i] EXCEPT !.confidence = new_conf, !.exam_date = new_date]
                        ELSE settings_widgets(subjects)[i]]
    /\ Report("web_settings", "ok", <<>>, <<>>, Absent)
    /\ UNCHANGED <<frontend, running, now, session_log, web_state>>

web_delete(name) ==
    /\ frontend = "web"
    /\ name \in Keys(subjects)
    /\ subjects' = settings_widgets(Delete(subjects, name))
    /\ Report("web_delete", "ok", <<>>, <<>>, Absent)
    /\ UNCHANGED <<frontend, running, now, session_log, web_state>>

web_add(new_subject_name) ==
    /\ frontend = "web"
    /\ Len(subjects) < MaxSubjects
    /\ IF new_subject_name = ""
       THEN /\ subjects' = settings_widgets(subjects)
            /\ Report("web_add", "ok", <<>>, <<>>, Absent)
       ELSE IF new_subject_name \in Keys(subjects)
       THEN /\ subjects' = settings_widgets(subjects)
            /\ Report("web_add", "exists", <<>>, <<>>, Absent)
       ELSE /\ subjects' = Append(settings_widgets(subjects),
                                  [name |-> new_subject_name, confidence |-> DefaultConf,
                                   exam_date |-> today + DefaultExamDays])
            /\ Report("web_add", "added", <<>>, <<>>, Absent)
    /\ UNCHANGED <<frontend, running, now, session_log, web_state>>

web_dashboard ==
    /\ frontend = "web"
    /\ op' = "web_dashboard"
    \* conf / 10 with a confidence of None
    /\ outcome' = IF \E i \in DOMAIN subjects : subjects[i].confidence = None
                  THEN "TypeError" ELSE "ok"
    /\ subject_priorities' = <<>>
    /\ offered' = <<>>
    /\ responses' = <<>>
    /\ chosen_subject' = Absent
    /\ IF session_log = <<>>
       THEN dates_set' = {} /\ streak' = None
       ELSE /\ dates_set' = dates_studied(session_log)
            /\ streak' = calculate_streak_web(dates_studied(session_log))
    /\ UNCHANGED <<frontend, running, now, subjects, session_log, web_state>>

-----------------------------------------------------------------------------
(* The clock                                                               *)

Tick(later) ==
    /\ running
    /\ later > now
    /\ now' = later
    /\ op' = "tick"
    /\ outcome' = "ok"
    /\ subject_priorities' = <<>>
    /\ offered' = <<>>
    /\ responses' = <<>>
    /\ chosen_subject' = Absent
    /\ dates_set' = {}
    /\ streak' = None
    /\ UNCHANGED <<frontend, running, subjects, session_log, web_state>>

-----------------------------------------------------------------------------
(* The state after load_subjects / load_data and load_log                  *)

\* the CLI's defaults are unset, the dashboard's are 5 and thirty days from today;
\* subjects.json holds what either program saved
LoadedEntries(program) ==
    IF program = "cli"
    THEN {[confidence |-> None, exam_date |-> None],
          [confidence |-> DefaultConf, exam_date |-> DefaultExamDays]}
    ELSE {[confidence |-> DefaultConf, exam_date |-> DefaultExamDays]}

LoadedStores(program) ==
    {[i \in 1..MaxSubjects |-> [name |-> default_names[i], confidence |-> e[i].confidence,
                                exam_date |-> e[i].exam_date]]
        : e \in [1..MaxSubjects -> LoadedEntries(program)]}

Init ==
    /\ frontend \in {"cli", "web"}
    /\ running = TRUE
    /\ now = 0
    /\ subjects \in LoadedStores(frontend)
    /\ session_log = <<>>
    /\ instant_suggestion = Absent
    /\ instant_mins = 0
    /\ instant_energy = ""
    /\ op = "load"
    /\ outcome = "ok"
    /\ subject_priorities = <<>>
    /\ offered = <<>>
    /\ responses = <<>>
    /\ chosen_subject = Absent
    /\ dates_set = {}
    /\ streak = None

Next ==
    \/ \E confs \in [DOMAIN subjects -> SetupConfInputs], dates \in [DOMAIN subjects -> ExamDays] :
          setup_subjects(confs, dates)
    \/ \E n \in 1..2 : \E typed \in [1..n -> SubjectInputs] :
          \E mins_in \in MinsInputs, task \in TaskInputs, eff \in ManualRatingInputs,
             conf \in ManualConfInputs :
             manual_log_session(typed, mins_in, task, eff, conf)
    \/ \E mins_in \in InstantMinsInputs, energy \in EnergyInputs,
          answers \in [DOMAIN subjects -> AnswerInputs] :
             \/ \E rating \in RatingInputs, conf \in ConfInputs :
                   instant_mode(mins_in, energy, answers, "YES", rating, conf)
             \/ \* the rating and the confidence are asked only after a yes
                instant_mode(mins_in, energy, answers, "No", "", "")
    \/ view_summary
    \/ \E mins \in WebMinsChoices, energy \in EnergyInputs : web_suggest(mins, energy)
    \/ web_instant_view
    \/ \E eff \in EffectivenessChoices, conf \in ConfChoices : web_instant_log(eff, conf)
    \/ \E subject \in Keys(subjects), duration \in WebMinsChoices, task \in TaskInputs,
          eff \in EffectivenessChoices, update \in BOOLEAN, conf \in ConfChoices :
             web_log_session(subject, duration, task, eff, update, IF update THEN conf ELSE None)
    \/ \E name \in Keys(subjects), conf \in ConfChoices, day \in ExamDays :
          web_settings(name, conf, day)
    \/ \E name \in Keys(subjects) : web_delete(name)
    \/ \E name \in NewSubjectInputs : web_add(name)
    \/ web_dashboard
    \/ \E later \in Instants : Tick(later)

Spec == Init /\ [][Next]_vars

-----------------------------------------------------------------------------
(* The Priority Engine on its own: every store and log of the sets below   *)
(* is ranked, by the CLI (which then runs its confirmation loop) and by    *)
(* the dashboard.                                                          *)

RankInstants == {16, 46, 60}
RankConfs == {2, 8}
RankExamDays == {13, 40}
RankTimestamps == {0, 16}
RankLogSubjects == {"Science", "History"}

RankStores ==
    UNION {{[i \in 1..n |-> [name |-> default_names[i], confidence |-> e[i][1],
                             exam_date |-> e[i][2]]]
               : e \in [1..n -> RankConfs \X RankExamDays]}
           : n \in 0..MaxRanked}

RankRecords ==
    {[subject |-> n, timestamp |-> t, task_type |-> "Essay", duration_mins |-> 30,
      effectiveness |-> 7] : n \in RankLogSubjects, t \in RankTimestamps}

RankLogs ==
    UNION {{log \in [1..n -> RankRecords] :
                \A i \in 1..(n - 1) : log[i].timestamp <= log[i + 1].timestamp}
           : n \in 0..MaxLog}

InitRank ==
    /\ frontend \in {"cli", "web"}
    /\ running = TRUE
    /\ now \in RankInstants
    /\ subjects \in RankStores
    /\ session_log \in RankLogs
    /\ instant_suggestion = Absent
    /\ instant_mins = 0
    /\ instant_energy = ""
    /\ op = "load"
    /\ outcome = "ok"
    /\ subject_priorities = <<>>
    /\ offered = <<>>
    /\ responses = <<>>
    /\ chosen_subject = Absent
    /\ dates_set = {}
    /\ streak = None

NextRank ==
    \/ \E mins_in \in InstantMinsInputs, energy \in EnergyInputs,
          answers \in [DOMAIN subjects -> AnswerInputs] :
             instant_mode(mins_in, energy, answers, "No", "", "")
    \/ \E mins \in WebMinsChoices, energy \in EnergyInputs : web_suggest(mins, energy)

SpecRank == InitRank /\ [][NextRank]_vars

-----------------------------------------------------------------------------
(* calculate_streak on its own: runs of consecutive days ending today or   *)
(* yesterday, with or without an older day behind a gap.  Day 0 is today.  *)

StreakInputs ==
    {{-(first + i) : i \in 0..(n - 1)} \cup older
        : <<n, first, older>> \in
            UNION {{<<n, first, {}>>, <<n, first, {-(first + n + 1)}>>}
                   : <<n, first>> \in (0..MaxRun) \X {0, 1}}}

InitStreak ==
    /\ frontend \in {"cli", "web"}
    /\ running = TRUE
    /\ now \in {0, 1}
    /\ subjects = <<>>
    /\ session_log = <<>>
    /\ instant_suggestion = Absent
    /\ instant_mins = 0
    /\ instant_energy = ""
    /\ op = "load"
    /\ outcome = "ok"
    /\ subject_priorities = <<>>
    /\ offered = <<>>
    /\ responses = <<>>
    /\ chosen_subject = Absent
    /\ dates_set \in StreakInputs
    /\ streak = None

streak_call ==
    /\ frontend = "cli"
    /\ op' = "calculate_streak"
    /\ streak' = calculate_streak(dates_set)
    /\ UNCHANGED <<frontend, running, now, subjects, session_log, web_state, outcome,
                   subject_priorities, offered, responses, chosen_subject, dates_set>>

streak_call_web ==
    /\ frontend = "web"
    /\ op' = "calculate_streak"
    /\ streak' = calculate_streak_web(dates_set)
    /\ UNCHANGED <<frontend, running, now, subjects, session_log, web_state, outcome,
                   subject_priorities, offered, responses, chosen_subject, dates_set>>

NextStreak == streak_call \/ streak_call_web

SpecStreak == InitStreak /\ [][NextStreak]_vars

-----------------------------------------------------------------------------
(* Properties                                                              *)

RecordingOps == {"manual_log_session", "instant_mode", "web_instant_log", "web_log_session"}

ScoringOps == {"instant_mode", "web_suggest"}

Failures == {"ValueError", "KeyError", "IndexError", "TypeError"}

IsPrefix(a, b) == Len(a) <= Len(b) /\ SubSeq(b, 1, Len(a)) = a

\* C1: an attempt to record a session that fails on an invalid input leaves the
\* Subject Store and the Session Log as they were, and no recording handler changes
\* a confidence without appending its record.
C1_NoPartialMutation ==
    [][op' \in RecordingOps =>
          /\ outcome' \in Failures => subjects' = subjects /\ session_log' = session_log
          /\ session_log' = session_log => subjects' = subjects]_vars

\* C2: a session of duration_minutes <= 0 is never recorded: starting from a log of
\* positive durations, every record of the log has duration_mins > 0.
C2_PositiveDurations ==
    \A i \in DOMAIN session_log : session_log[i].duration_mins > 0

\* C3: every record a handler appends names a subject that is a key of the Subject
\* Store at the append, and logging a suggestion whose subject is no longer a key is
\* refused and appends nothing.
C3_RecordsNameKnownSubjects ==
    [][/\ Len(session_log') > Len(session_log) =>
              /\ session_log'[Len(session_log')].subject \in Keys(subjects)
              /\ session_log'[Len(session_log')].subject \in Keys(subjects')
       /\ (op' = "web_instant_log" /\ instant_suggestion \notin Keys(subjects)) =>
              outcome' \in Failures /\ session_log' = session_log]_vars

C3_Witness ==
    /\ op = "web_instant_log"
    /\ outcome = "KeyError"
    /\ instant_suggestion \notin Keys(subjects)

\* C4: every subject's confidence is unset or an integer of 1..10.
C4_ConfidenceInRange ==
    \A i \in DOMAIN subjects :
        subjects[i].confidence = None \/ in_range(subjects[i].confidence)

\* C5: every record of the Session Log has an effectiveness of 1..10.
C5_EffectivenessInRange ==
    \A i \in DOMAIN session_log : in_range(session_log[i].effectiveness)

\* C6: the Session Log is append-only: every step leaves the earlier log a prefix of
\* the later one, and a handler that reports a logged session extends it by exactly
\* one record.
C6_AppendOnly ==
    [][/\ IsPrefix(session_log, session_log')
       /\ Len(session_log') <= Len(session_log) + 1
       /\ (op' \in RecordingOps /\ outcome' = "logged") =>
              Len(session_log') = Len(session_log) + 1]_vars

C6_Witness ==
    /\ Len(session_log) >= 2
    /\ op \in RecordingOps
    /\ outcome = "logged"

\* C7: scoring is refused when a subject lacks its confidence or its exam date (no
\* ranking, no suggestion, store and log unchanged), and proceeds when every subject
\* has both.
C7_RefusesIffIncomplete ==
    [][op' \in ScoringOps =>
          IF \E i \in DOMAIN subjects :
                subjects[i].confidence = None \/ subjects[i].exam_date = None
          THEN /\ subject_priorities' = <<>>
               /\ chosen_subject' = Absent
               /\ instant_suggestion' = instant_suggestion
               /\ subjects' = subjects
               /\ session_log' = session_log
          ELSE outcome' # "incomplete"]_vars

\* C8: the ranking holds exactly one pair per subject of the Subject Store, none for
\* a subject that is only in the log, in non-increasing order of score.
C8_RankingCoversStoreDescending ==
    (op \in ScoringOps /\ outcome \notin {"incomplete", "KeyError"}) =>
        /\ Len(subject_priorities) = Len(subjects)
        /\ {subject_priorities[i][1] : i \in DOMAIN subject_priorities} = Keys(subjects)
        /\ \A i \in DOMAIN subjects : \A j \in DOMAIN subjects :
              (subject_priorities[i][1] = subject_priorities[j][1]) => i = j
        /\ \A i \in DOMAIN subject_priorities : \A j \in DOMAIN subject_priorities :
              i < j => score_ge(subject_priorities[i][2], subject_priorities[j][2])

C8_Witness ==
    /\ op = "instant_mode"
    /\ Len(subject_priorities) >= 2
    /\ subject_priorities[1][1] # subjects[1].name
    /\ ~score_ge(subject_priorities[Len(subject_priorities)][2], subject_priorities[1][2])
    /\ \E i \in DOMAIN session_log : session_log[i].subject \notin Keys(subjects)

Accepted(reply) == lower(strip(reply)) = "yes"

\* C9: the subjects are offered in ranked order up to the first one accepted, which
\* is the chosen subject; when every one is rejected the chosen subject is the
\* first of the ranking.
C9_FirstAcceptedElseTop ==
    (op = "instant_mode" /\ subject_priorities # <<>>) =>
        /\ Len(responses) = Len(offered)
        /\ Len(offered) <= Len(subject_priorities)
        /\ \A i \in DOMAIN offered : offered[i] = subject_priorities[i][1]
        /\ \A i \in 1..(Len(responses) - 1) : ~Accepted(responses[i])
        /\ IF Accepted(responses[Len(responses)])
           THEN chosen_subject = offered[Len(offered)]
           ELSE Len(offered) = Len(subject_priorities)
                /\ chosen_subject = subject_priorities[1][1]

C9_Witness ==
    /\ op = "instant_mode"
    /\ Len(subject_priorities) >= 2
    /\ Len(offered) = 2
    /\ chosen_subject = subject_priorities[2][1]
    /\ chosen_subject # subject_priorities[1][1]

\* the days in a row, back from day0, that are in the set
RunLength(dates, day0) ==
    CHOOSE k \in 0..Cardinality(dates) :
        /\ \A i \in 0..(k - 1) : (day0 - i) \in dates
        /\ (day0 - k) \notin dates

\* C10: the streak is the number of consecutive days, back from today, that hold a
\* session, whatever its size.
C10_StreakIsRunLength ==
    streak # None => streak = RunLength(dates_set, today)

\* C10 as amended: the dashboard's streak is that number; the CLI's is that number
\* up to the 100 days its loop looks back.
C10_StreakIsRunLengthUpToLookBack ==
    streak # None =>
        streak = IF frontend = "cli" /\ RunLength(dates_set, today) > LookBack
                 THEN LookBack
                 ELSE RunLength(dates_set, today)

C10_Witness ==
    /\ frontend = "cli"
    /\ op = "calculate_streak"
    /\ RunLength(dates_set, today) > LookBack
    /\ streak = LookBack

Max(a, b) == IF a >= b THEN a ELSE b

Min(a, b) == IF a <= b THEN a ELSE b

SessionsOf(name) == {i \in DOMAIN session_log : session_log[i].subject = name}

LastSession(name) ==
    CHOOSE t \in {session_log[i].timestamp : i \in SessionsOf(name)} :
        \A i \in SessionsOf(name) : session_log[i].timestamp <= t

\* the decay of the written formula: whole weeks since the last session, at most 3,
\* and 0 for a subject never studied
DecayOf(name) ==
    IF SessionsOf(name) = {} THEN 0
    ELSE Min(((now - LastSession(name)) \div TicksPerDay) \div 7, 3)

DifficultyOf(entry) == 11 - Max(1, entry.confidence - DecayOf(entry.name))

RecentCountOf(name) ==
    Cardinality({i \in SessionsOf(name) : session_log[i].timestamp >= now - 7 * TicksPerDay})

\* score = 1.5 * urgency + difficulty - 0.5 * recent_count, with urgency 1 / days_left
\* for days_left >= 1 and 10 otherwise; both sides multiplied by 2 * days_left (by 2)
ScoreIsWritten(score, entry) ==
    LET days_left == entry.exam_date - today
        diff == DifficultyOf(entry)
        recent == RecentCountOf(entry.name)
    IN  IF days_left >= 1
        THEN 2 * days_left * score[1] = score[2] * (3 + 2 * days_left * diff - days_left * recent)
        ELSE 2 * score[1] = score[2] * (30 + 2 * diff - recent)

EntryOf(name) == subjects[CHOOSE i \in DOMAIN subjects : subjects[i].name = name]

Ranked == op \in ScoringOps /\ outcome \in {"not_logged", "suggested"}

\* C11: every score of a ranking is 1.5 * urgency + difficulty - 0.5 * recent_count of
\* its subject, with urgency = 1 / max(days_left, 0.1), difficulty = 11 - max(1,
\* stored_confidence - decay) and recent_count the subject's records of the last 7 days.
C11_ScoreFormula ==
    Ranked =>
        \A k \in DOMAIN subject_priorities :
            /\ subject_priorities[k][1] \in Keys(subjects)
            /\ ScoreIsWritten(subject_priorities[k][2], EntryOf(subject_priorities[k][1]))

\* confidence 8, exam in 5 days, never studied: 3.3; beside it a subject studied
\* within the week, one whose confidence has decayed, one whose exam is past
C11_Witness ==
    /\ Ranked
    /\ \E k \in DOMAIN subject_priorities :
          LET e == EntryOf(subject_priorities[k][1])
          IN  /\ e.confidence = 8
              /\ e.exam_date - today = 5
              /\ SessionsOf(e.name) = {}
              /\ 10 * subject_priorities[k][2][1] = 33 * subject_priorities[k][2][2]
    /\ \E k \in DOMAIN subject_priorities : RecentCountOf(subject_priorities[k][1]) >= 1

\* the difficulty the handler of this program computes for a subject of the store
difficulty_computed(entry) ==
    LET days_since == get_days_since_last_session(session_log, entry.name)
    IN  difficulty(IF frontend = "cli" THEN adjusted_conf(entry.confidence, days_since)
                   ELSE adjusted_conf_web(entry.confidence, days_since))

\* C12: in every run of the Priority Engine the difficulty computed for each subject
\* of the store lies in 1..10.
C12_DifficultyInRange ==
    [][(op' \in ScoringOps /\ subject_priorities' # <<>>) =>
          \A i \in DOMAIN subjects :
              1 <= difficulty_computed(subjects[i]) /\ difficulty_computed(subjects[i]) <= 10]_vars

PositionOf(name) == CHOOSE i \in DOMAIN subjects : subjects[i].name = name

score_eq(a, b) == score_ge(a, b) /\ score_ge(b, a)

\* C13: of two subjects of a ranking, the earlier has the greater score, or the same
\* score and the earlier place in the Subject Store's iteration order; the order of
\* the ranking, and its first subject, is thereby fixed by the store, the log and the
\* time.
C13_TiesKeepStoreOrder ==
    Ranked =>
        \A i \in DOMAIN subject_priorities : \A j \in DOMAIN subject_priorities :
            i < j =>
                /\ subject_priorities[i][1] \in Keys(subjects)
                /\ subject_priorities[j][1] \in Keys(subjects)
                /\ \/ ~score_ge(subject_priorities[j][2], subject_priorities[i][2])
                   \/ /\ score_eq(subject_priorities[i][2], subject_priorities[j][2])
                      /\ PositionOf(subject_priorities[i][1]) < PositionOf(subject_priorities[j][1])

\* two subjects of equal score, ranked from a log that holds a record
C13_Witness ==
    /\ Ranked
    /\ Len(subject_priorities) = 2
    /\ score_eq(subject_priorities[1][2], subject_priorities[2][2])
    /\ subject_priorities[1][1] = subjects[1].name
    /\ session_log # <<>>

\* C14: a recording handler that logged a session for a subject leaves the names,
\* the order and the exam dates of the Subject Store and every other subject's
\* confidence as they were, and that subject's confidence as it was or at a new
\* value of 1..10.
C14_RecordingFrame ==
    [][(op' \in RecordingOps /\ outcome' = "logged") =>
          /\ Len(subjects') = Len(subjects)
          /\ \A i \in DOMAIN subjects :
                /\ subjects'[i].name = subjects[i].name
                /\ subjects'[i].exam_date = subjects[i].exam_date
                /\ subjects[i].name # chosen_subject' =>
                       subjects'[i].confidence = subjects[i].confidence
                /\ subjects[i].name = chosen_subject' =>
                       \/ subjects'[i].confidence = subjects[i].confidence
                       \/ in_range(subjects'[i].confidence)]_vars

\* C15: a scoring handler whose completeness check passed ends with a non-empty
\* ranking and a chosen subject that is a key of the Subject Store, never with the
\* IndexError of an empty ranking.
C15_SuggestionNeverFails ==
    (op \in ScoringOps /\ outcome \notin {"incomplete", "KeyError"}) =>
        /\ outcome # "IndexError"
        /\ subject_priorities # <<>>
        /\ chosen_subject \in Keys(subjects)

\* C16: in the dashboard a pending instant suggestion names a key of the Subject
\* Store, and no page run ends with the KeyError of a missing subject.
C16_PendingSuggestionIsKey ==
    frontend = "web" =>
        /\ instant_suggestion # Absent => instant_suggestion \in Keys(subjects)
        /\ outcome # "KeyError"

====
